---- MODULE Spec2Model ----
(***************************************************************************)
(* Usage metering and chat pipeline of the FastAPI AI chat platform.       *)
(*                                                                         *)
(* The database holds the "user" rows (ai_requests_count, is_unlimited)    *)
(* and the chat_history rows.  Every WebSocket connection (/ai/ws/chat)    *)
(* and every HTTP request (POST /ai/chat) works on its own ORM object of   *)
(* the user row: the object is loaded once (at connection start, or by     *)
(* get_current_user at request start), read and incremented in memory,     *)
(* written back by db.commit() as an absolute value, and re-read by        *)
(* db.refresh().  A rollback expires the object, so that its next read     *)
(* loads the row again.                                                    *)
(* GET /ai/chat-history reads the rows of one user and one provider.       *)
(***************************************************************************)
EXTENDS Integers, Sequences, FiniteSets, TLC

\* ------------------------------------------------------------------ bounds

\* settings.AI_USAGE_LIMIT
LIMIT == 2
\* number of user rows
NumUsers == 1
\* number of WebSocket connections (/ai/ws/chat)
NumConns == 1
\* number of HTTP request slots (POST /ai/chat), each reusable
NumReqs == 1
\* the stored ai_requests_count starts anywhere in 0..MaxInitCount
MaxInitCount == 3
\* no new message or request is issued once chat_history holds this many rows
MaxChats == 4
\* settings.RATE_LIMIT_WINDOW, in seconds
RATE_LIMIT_WINDOW == 3
\* the most chat_history rows a history request starts from
MaxRows == 3
NumClients == 2
MaxSays == 1

Users == 1..NumUsers
Conns == 1..NumConns
Reqs == (NumConns + 1)..(NumConns + NumReqs)
Procs == Conns \cup Reqs

\* ------------------------------------------------------------ program data

AIModels == {"gemini", "groq"}
Prompts == {"hello"}
Responses == {"AI Response"}

WS_1008_POLICY_VIOLATION == 1008
WS_1011_INTERNAL_ERROR == 1011

max(a, b) == IF a >= b THEN a ELSE b

NoUser == [id |-> 0, ai_requests_count |-> 0, is_unlimited |-> FALSE, expired |-> FALSE]
NoData == [model_name |-> "", prompt |-> ""]
NoRun == [allowed |-> FALSE, remaining |-> 0, response_text |-> "",
          usage_checks |-> 0, provider_calls |-> 0, chat_id |-> 0]
NoResult == [status_code |-> 0, detail |-> "", final_remaining |-> 0]
NoSent == [status_code |-> 0, body |-> [none |-> TRUE]]
NoToken == [kind |-> "none", email |-> 0]

\* the credentials a connection may present: none, a token that does not
\* verify, an expired one, or a valid token naming an email (0: of no user)
Tokens ==
    {[kind |-> k, email |-> 0] : k \in {"missing", "invalid", "expired"}}
        \cup {[kind |-> "valid", email |-> e] : e \in 0..NumUsers}

VARIABLES
    db_user,        \* table "user": id -> [ai_requests_count, is_unlimited]
    db_chat,        \* table "chat_history", in insertion order
    disabled,       \* the providers switched off (static, fixed at deploy time)
    initial_count,  \* the ai_requests_count each user started with (never changes)
    pc,             \* where each connection / request stands
    current_user,   \* the ORM object of the user row each connection / request holds
    data,           \* the message or request body being processed
    run,            \* locals of the pipeline run in progress
    result,         \* what the pipeline run returned or raised
    sent,           \* the last payload / response delivered to the client
    close_code,     \* the code a WebSocket was closed with (0: not closed by the server)
    token,          \* the credential each WebSocket connection presented
    connected,      \* whether the client of each WebSocket connection is still there
    active_connections,     \* ws.py: manager.active_connections, a list of sockets
    ws_pc,                  \* ws.py: where the handler of each chat-room client stands
    ws_connected,           \* ws.py: whether a send on the client's socket succeeds
    says,                   \* ws.py: the text frames each client has sent
    broadcast_i,            \* ws.py: the list iterator of the broadcast each handler runs
    inactive_connections,   \* ws.py: the local inactive_connections of that broadcast
    received,               \* ws.py: how often that broadcast's message was sent to each socket
    listeners               \* ws.py: the sockets in the list ever since that broadcast began

\* the state of POST /ai/chat, GET /ai/chat-history and /ai/ws/chat
chat_vars == <<db_user, db_chat, disabled, initial_count, pc, current_user, data, run,
               result, sent, close_code, token, connected>>

\* the state of the chat room of api/ws.py
ws_vars == <<active_connections, ws_pc, ws_connected, says, broadcast_i,
             inactive_connections, received, listeners>>

vars == <<chat_vars, ws_vars>>

\* ----------------------------------------------------------- ORM / database

\* SELECT of the user row into a fresh ORM object
load_user(u) ==
    [id |-> u, ai_requests_count |-> db_user[u].ai_requests_count,
     is_unlimited |-> db_user[u].is_unlimited, expired |-> FALSE]

\* an expired ORM object holds no attribute values
expire(user) == [NoUser EXCEPT !.id = user.id, !.expired = TRUE]

\* attribute access: an expired object is loaded again from its row
attributes(user) == IF user.expired THEN load_user(user.id) ELSE user

\* a rollback that leaves the in-memory object as it was modified
rollback_keeps_changes(user) == user

\* db.rollback(): the pending changes are dropped and the object is expired
rollback(user) == expire(user)

\* ------------------------------------------------------ chat_repository.py

is_provider_available(model_name) == model_name \notin disabled

\* the remaining count computed without the clamp at 0
check_usage_limit_unclamped(user) ==
    IF user.is_unlimited
    THEN [allowed |-> TRUE, remaining |-> -1]
    ELSE LET remaining == LIMIT - user.ai_requests_count
         IN  IF remaining = 0
             THEN [allowed |-> FALSE, remaining |-> 0]
             ELSE [allowed |-> TRUE, remaining |-> remaining]

check_usage_limit(user) ==
    IF user.is_unlimited
    THEN [allowed |-> TRUE, remaining |-> -1]
    ELSE LET remaining == max(0, LIMIT - user.ai_requests_count)
         IN  IF remaining = 0
             THEN [allowed |-> FALSE, remaining |-> 0]
             ELSE [allowed |-> TRUE, remaining |-> remaining]

\* the increment without the is_unlimited test
increment_counter_always(user) == [user EXCEPT !.ai_requests_count = @ + 1]

\* "if not current_user.is_unlimited: current_user.ai_requests_count += 1"
increment_counter(user) ==
    IF ~user.is_unlimited
    THEN [user EXCEPT !.ai_requests_count = @ + 1]
    ELSE user

\* the remaining requests computed after the refresh
final_remaining(user) ==
    IF user.is_unlimited
    THEN -1
    ELSE max(0, LIMIT - user.ai_requests_count)

\* a ChatHistory object; its id and created_at are assigned when the row is
\* inserted
ChatHistory(user_id, prompt, response, model_name) ==
    [id |-> 0, user_id |-> user_id, prompt |-> prompt, response |-> response,
     model_name |-> model_name, created_at |-> 0]

\* the id the next inserted row gets
next_id == Len(db_chat) + 1

\* "db.add(chat)" made durable by the commit: the row gets the next id and
\* the time of its insertion (counted in rows)
insert(chat) == Append(db_chat, [chat EXCEPT !.id = next_id, !.created_at = next_id])

\* the orders in which a SELECT without ORDER BY may deliver the rows S
row_orders(S) ==
    {f \in [1..Cardinality(S) -> S] : \A i, j \in DOMAIN f : i # j => f[i] # f[j]}

\* "select(ChatHistory).where(user_id == current_user.id, model_name ==
\* model_name)": every result the query may deliver
get_chat_history(model_name, user) ==
    LET rows == {i \in DOMAIN db_chat :
                    /\ db_chat[i].user_id = user.id
                    /\ db_chat[i].model_name = model_name}
    IN  {[k \in DOMAIN f |-> db_chat[f[k]]] : f \in row_orders(rows)}

HTTPException(status_code, detail) ==
    [status_code |-> status_code, detail |-> detail, final_remaining |-> 0]

provider_unavailable_error == HTTPException(403, "This AI provider is currently unavailable")
usage_limit_error == HTTPException(403, "AI usage limit reached")
\* the provider's exception surfaced as a success
platform_error_swallowed == [status_code |-> 200, detail |-> "", final_remaining |-> 0]

platform_error == HTTPException(500, "AI platform error")
database_error == HTTPException(500, "Database error")

\* db.commit() of the user object: the row is UPDATEd, with the value the
\* object holds, only if the object was modified since it was loaded
commit_user(loaded, user) ==
    IF user.ai_requests_count = loaded.ai_requests_count
    THEN db_user
    ELSE [db_user EXCEPT ![user.id].ai_requests_count = user.ai_requests_count]

unchanged_db == UNCHANGED <<db_user, db_chat, disabled, initial_count>>

\* ---- generate_model_response (the realtime pipeline), one action per step

\* the usage check evaluated ahead of the availability check
generate_model_response_usage_first(c) ==
    /\ c \in Conns
    /\ pc[c] = "check_provider"
    /\ LET user == attributes(current_user[c])
           usage == check_usage_limit(user)
       IN  /\ current_user' = [current_user EXCEPT ![c] = user]
           /\ run' = [run EXCEPT ![c].allowed = usage.allowed,
                                 ![c].remaining = usage.remaining,
                                 ![c].usage_checks = @ + 1]
           /\ IF ~usage.allowed
              THEN /\ result' = [result EXCEPT ![c] = usage_limit_error]
                   /\ pc' = [pc EXCEPT ![c] = "replying"]
              ELSE IF ~is_provider_available(data[c].model_name)
              THEN /\ result' = [result EXCEPT ![c] = provider_unavailable_error]
                   /\ pc' = [pc EXCEPT ![c] = "replying"]
              ELSE /\ pc' = [pc EXCEPT ![c] = "call_provider"]
                   /\ UNCHANGED result
    /\ unchanged_db
    /\ UNCHANGED <<data, sent, close_code, token, connected, ws_vars>>

\* what one step of a pipeline leaves: the next step ("return" once the
\* function has returned or raised), the user object, the locals, the result,
\* and the two tables
outcome(next, user, locals, res, users, chats) ==
    [pc |-> next, current_user |-> user, run |-> locals, result |-> res,
     db_user |-> users, db_chat |-> chats]

\* the step of process p ends as o; "returned" is where p goes on return
apply(p, o, returned) ==
    /\ pc' = [pc EXCEPT ![p] = IF o.pc = "return" THEN returned ELSE o.pc]
    /\ current_user' = [current_user EXCEPT ![p] = o.current_user]
    /\ run' = [run EXCEPT ![p] = o.run]
    /\ result' = [result EXCEPT ![p] = o.result]
    /\ db_user' = o.db_user
    /\ db_chat' = o.db_chat

unchanged_rest == UNCHANGED <<disabled, initial_count, data, sent, close_code, token, connected, ws_vars>>

\* "if not is_provider_available(data.model_name): raise HTTPException(403)"
generate_model_response_check_provider_outcomes(user, message, locals, res) ==
    IF ~is_provider_available(message.model_name)
    THEN {outcome("return", user, locals, provider_unavailable_error, db_user, db_chat)}
    ELSE {outcome("check_usage", user, locals, res, db_user, db_chat)}

generate_model_response_check_provider(c) ==
    /\ c \in Conns
    /\ pc[c] = "check_provider"
    /\ \E o \in generate_model_response_check_provider_outcomes(
                   current_user[c], data[c], run[c], result[c]) :
          apply(c, o, "replying")
    /\ unchanged_rest

\* "allowed, remaining = check_usage_limit(current_user); if not allowed: raise"
generate_model_response_check_usage_outcomes(user, message, locals, res) ==
    LET loaded == attributes(user)
        usage == check_usage_limit(loaded)
        checked == [locals EXCEPT !.allowed = usage.allowed,
                                  !.remaining = usage.remaining,
                                  !.usage_checks = @ + 1]
    IN  IF ~usage.allowed
        THEN {outcome("return", loaded, checked, usage_limit_error, db_user, db_chat)}
        ELSE {outcome("call_provider", loaded, checked, res, db_user, db_chat)}

generate_model_response_check_usage(c) ==
    /\ c \in Conns
    /\ pc[c] = "check_usage"
    /\ \E o \in generate_model_response_check_usage_outcomes(
                   current_user[c], data[c], run[c], result[c]) :
          apply(c, o, "replying")
    /\ unchanged_rest

\* "ai_platform = get_ai_platform(data.model_name); response_text =
\* ai_platform.chat(data.prompt)": a text, or an exception re-raised as 500
generate_model_response_call_provider_outcomes(user, message, locals, res) ==
    {outcome("persist", user,
             [locals EXCEPT !.response_text = response_text, !.provider_calls = @ + 1],
             res, db_user, db_chat) : response_text \in Responses}
    \cup {outcome("return", user, [locals EXCEPT !.provider_calls = @ + 1],
                  platform_error, db_user, db_chat)}

generate_model_response_call_provider(c) ==
    /\ c \in Conns
    /\ pc[c] = "call_provider"
    /\ \E o \in generate_model_response_call_provider_outcomes(
                   current_user[c], data[c], run[c], result[c]) :
          apply(c, o, "replying")
    /\ unchanged_rest

\* "chat = ChatHistory(...); db.add(chat); increment; db.add(current_user);
\* db.commit()": both writes are made durable, or the commit fails and the
\* except branch rolls back and raises 500
generate_model_response_persist_outcomes(user, message, locals, res) ==
    LET chat == ChatHistory(user.id, message.prompt, locals.response_text,
                            message.model_name)
        counted == increment_counter(user)
    IN  {outcome("refresh", expire(counted), [locals EXCEPT !.chat_id = next_id], res,
                 commit_user(user, counted), insert(chat)),
         outcome("return", rollback(counted), locals, database_error,
                 db_user, db_chat)}

generate_model_response_persist(c) ==
    /\ c \in Conns
    /\ pc[c] = "persist"
    /\ \E o \in generate_model_response_persist_outcomes(
                   current_user[c], data[c], run[c], result[c]) :
          apply(c, o, "replying")
    /\ unchanged_rest

\* "db.refresh(chat); db.refresh(current_user)", the final remaining, and the
\* return; a refresh that fails ends in the same except branch
generate_model_response_refresh_outcomes(user, message, locals, res) ==
    LET fresh == load_user(user.id)
    IN  {outcome("return", fresh, locals,
                 [status_code |-> 200, detail |-> "",
                  final_remaining |-> final_remaining(fresh)],
                 db_user, db_chat),
         outcome("return", rollback(user), locals, database_error, db_user, db_chat)}

generate_model_response_refresh(c) ==
    /\ c \in Conns
    /\ pc[c] = "refresh"
    /\ \E o \in generate_model_response_refresh_outcomes(
                   current_user[c], data[c], run[c], result[c]) :
          apply(c, o, "replying")
    /\ unchanged_rest

\* ---- chat (the legacy pipeline of POST /ai/chat), one action per step

chat_check_provider_outcomes(user, message, locals, res) ==
    IF ~is_provider_available(message.model_name)
    THEN {outcome("return", user, locals, provider_unavailable_error, db_user, db_chat)}
    ELSE {outcome("check_usage", user, locals, res, db_user, db_chat)}

chat_check_provider(r) ==
    /\ r \in Reqs
    /\ pc[r] = "check_provider"
    /\ \E o \in chat_check_provider_outcomes(current_user[r], data[r], run[r], result[r]) :
          apply(r, o, "responding")
    /\ unchanged_rest

chat_check_usage_outcomes(user, message, locals, res) ==
    LET loaded == attributes(user)
        usage == check_usage_limit(loaded)
        checked == [locals EXCEPT !.allowed = usage.allowed,
                                  !.remaining = usage.remaining,
                                  !.usage_checks = @ + 1]
    IN  IF ~usage.allowed
        THEN {outcome("return", loaded, checked, usage_limit_error, db_user, db_chat)}
        ELSE {outcome("call_provider", loaded, checked, res, db_user, db_chat)}

chat_check_usage(r) ==
    /\ r \in Reqs
    /\ pc[r] = "check_usage"
    /\ \E o \in chat_check_usage_outcomes(current_user[r], data[r], run[r], result[r]) :
          apply(r, o, "responding")
    /\ unchanged_rest

chat_call_provider_outcomes(user, message, locals, res) ==
    {outcome("persist", user,
             [locals EXCEPT !.response_text = response_text, !.provider_calls = @ + 1],
             res, db_user, db_chat) : response_text \in Responses}
    \cup {outcome("return", user, [locals EXCEPT !.provider_calls = @ + 1],
                  platform_error, db_user, db_chat)}

chat_call_provider(r) ==
    /\ r \in Reqs
    /\ pc[r] = "call_provider"
    /\ \E o \in chat_call_provider_outcomes(current_user[r], data[r], run[r], result[r]) :
          apply(r, o, "responding")
    /\ unchanged_rest

\* the legacy pipeline storing the record without counting the request
chat_persist_outcomes_uncounted(user, message, locals, res) ==
    LET chat_record == ChatHistory(user.id, message.prompt, locals.response_text,
                                   message.model_name)
    IN  {outcome("refresh", expire(user), [locals EXCEPT !.chat_id = next_id], res,
                 db_user, insert(chat_record)),
         outcome("return", rollback(user), locals, database_error, db_user, db_chat)}

chat_persist_outcomes(user, message, locals, res) ==
    LET chat_record == ChatHistory(user.id, message.prompt, locals.response_text,
                                   message.model_name)
        counted == increment_counter(user)
    IN  {outcome("refresh", expire(counted), [locals EXCEPT !.chat_id = next_id], res,
                 commit_user(user, counted), insert(chat_record)),
         outcome("return", rollback(counted), locals, database_error,
                 db_user, db_chat)}

chat_persist(r) ==
    /\ r \in Reqs
    /\ pc[r] = "persist"
    /\ \E o \in chat_persist_outcomes(current_user[r], data[r], run[r], result[r]) :
          apply(r, o, "responding")
    /\ unchanged_rest

chat_refresh_outcomes(user, message, locals, res) ==
    LET fresh == load_user(user.id)
    IN  {outcome("return", fresh, locals,
                 [status_code |-> 200, detail |-> "",
                  final_remaining |-> final_remaining(fresh)],
                 db_user, db_chat),
         outcome("return", rollback(user), locals, database_error, db_user, db_chat)}

chat_refresh(r) ==
    /\ r \in Reqs
    /\ pc[r] = "refresh"
    /\ \E o \in chat_refresh_outcomes(current_user[r], data[r], run[r], result[r]) :
          apply(r, o, "responding")
    /\ unchanged_rest

\* ---------------------------------------- api/chat.py: websocket_endpoint

\* the handler checking the credential before the accept, and refusing the
\* handshake of a bad one
websocket_endpoint_accept_checks_first(c) ==
    /\ c \in Conns
    /\ pc[c] = "connecting"
    /\ \E t \in Tokens :
          /\ token' = [token EXCEPT ![c] = t]
          /\ IF t.kind = "valid"
             THEN /\ pc' = [pc EXCEPT ![c] = "authenticating"]
                  /\ UNCHANGED close_code
             ELSE /\ pc' = [pc EXCEPT ![c] = "closed"]
                  /\ close_code' = [close_code EXCEPT ![c] = WS_1008_POLICY_VIOLATION]
    /\ unchanged_db
    /\ UNCHANGED <<current_user, data, run, result, sent, connected, ws_vars>>

\* a client connects, presenting its credential; "await websocket.accept()"
websocket_endpoint_accept(c) ==
    /\ c \in Conns
    /\ pc[c] = "connecting"
    /\ \E t \in Tokens : token' = [token EXCEPT ![c] = t]
    /\ pc' = [pc EXCEPT ![c] = "authenticating"]
    /\ unchanged_db
    /\ UNCHANGED <<current_user, data, run, result, sent, close_code, connected, ws_vars>>

\* core/oauth2.authenticate_websocket: the token data, or None after closing
\* the socket with the policy-violation code
authenticate_websocket(t) ==
    IF t.kind = "valid"
    THEN [token_data |-> [email |-> t.email], close |-> 0]
    ELSE [token_data |-> [none |-> TRUE], close |-> WS_1008_POLICY_VIOLATION]

\* core/helpers.get_user_from_token: the user row of the email, or None
get_user_from_token(email) == IF email \in Users THEN load_user(email) ELSE NoUser

\* the handler without the "return" after closing the socket of an unknown user
websocket_endpoint_authenticate_no_return(c) ==
    /\ c \in Conns
    /\ pc[c] = "authenticating"
    /\ LET auth == authenticate_websocket(token[c])
       IN  IF auth.close # 0
           THEN /\ close_code' = [close_code EXCEPT ![c] = auth.close]
                /\ pc' = [pc EXCEPT ![c] = "closed"]
                /\ UNCHANGED current_user
           ELSE LET user == get_user_from_token(auth.token_data.email)
                IN  /\ current_user' = [current_user EXCEPT ![c] = user]
                    /\ pc' = [pc EXCEPT ![c] = "ready"]
                    /\ IF user = NoUser
                       THEN close_code' = [close_code EXCEPT ![c] = WS_1008_POLICY_VIOLATION]
                       ELSE UNCHANGED close_code
    /\ unchanged_db
    /\ UNCHANGED <<data, run, result, sent, token, connected, ws_vars>>

\* "token_data = await authenticate_websocket(websocket); if not token_data:
\* return", then get_user_from_token in a session of its own: the user object
\* is loaded here, once for the whole connection
websocket_endpoint_authenticate(c) ==
    /\ c \in Conns
    /\ pc[c] = "authenticating"
    /\ LET auth == authenticate_websocket(token[c])
       IN  IF auth.close # 0
           THEN /\ close_code' = [close_code EXCEPT ![c] = auth.close]
                /\ pc' = [pc EXCEPT ![c] = "closed"]
                /\ UNCHANGED current_user
           ELSE LET user == get_user_from_token(auth.token_data.email)
                IN  IF user = NoUser
                    THEN /\ close_code' = [close_code EXCEPT ![c] = WS_1008_POLICY_VIOLATION]
                         /\ pc' = [pc EXCEPT ![c] = "closed"]
                         /\ UNCHANGED current_user
                    ELSE /\ current_user' = [current_user EXCEPT ![c] = user]
                         /\ pc' = [pc EXCEPT ![c] = "ready"]
                         /\ UNCHANGED close_code
    /\ unchanged_db
    /\ UNCHANGED <<data, run, result, sent, token, connected, ws_vars>>

\* the disconnect aborting the handler's task at once
client_disconnect_aborts(c) ==
    /\ c \in Conns
    /\ pc[c] \notin {"connecting", "authenticating", "closed"}
    /\ connected[c]
    /\ connected' = [connected EXCEPT ![c] = FALSE]
    /\ pc' = [pc EXCEPT ![c] = "closed"]
    /\ unchanged_db
    /\ UNCHANGED <<current_user, data, run, result, sent, close_code, token, ws_vars>>

\* the client of an authenticated session goes away, at any moment; the
\* handler learns of it at its next receive or send
client_disconnect(c) ==
    /\ c \in Conns
    /\ pc[c] \notin {"connecting", "authenticating", "closed"}
    /\ connected[c]
    /\ connected' = [connected EXCEPT ![c] = FALSE]
    /\ unchanged_db
    /\ UNCHANGED <<pc, current_user, data, run, result, sent, close_code, token, ws_vars>>

\* "await websocket.send_json(payload)" and back to the top of the loop; with
\* the client gone the send raises, and "except WebSocketDisconnect" or
\* "except Exception" (whose close then fails or not) ends the handler
send_json(c, payload) ==
    IF connected[c]
    THEN /\ sent' = [sent EXCEPT ![c] = payload]
         /\ pc' = [pc EXCEPT ![c] = "ready"]
         /\ UNCHANGED close_code
    ELSE /\ pc' = [pc EXCEPT ![c] = "closed"]
         /\ \E code \in {0, WS_1011_INTERNAL_ERROR} :
               close_code' = [close_code EXCEPT ![c] = code]
         /\ UNCHANGED sent

\* a next frame taken from the socket while a message is still being processed
websocket_endpoint_receive_pipelined(c) ==
    /\ c \in Conns
    /\ pc[c] \notin {"connecting", "authenticating", "closed"}
    /\ connected[c]
    /\ Len(db_chat) < MaxChats
    /\ \E model_name \in AIModels \cup {"malformed"}, prompt \in Prompts :
          data' = [data EXCEPT ![c] = [model_name |-> model_name, prompt |-> prompt]]
    /\ pc' = [pc EXCEPT ![c] = "validating"]
    /\ sent' = [sent EXCEPT ![c] = NoSent]
    /\ unchanged_db
    /\ UNCHANGED <<current_user, run, result, close_code, token, connected, ws_vars>>

\* "raw_data = await websocket.receive_json()": a JSON frame, or a frame that
\* is not JSON, whose decoding error is caught by "except Exception" and closes
\* the socket, or WebSocketDisconnect once the client is gone
websocket_endpoint_receive(c) ==
    /\ c \in Conns
    /\ pc[c] = "ready"
    /\ \/ /\ connected[c]
          /\ Len(db_chat) < MaxChats
          /\ \E model_name \in AIModels \cup {"malformed"}, prompt \in Prompts :
                data' = [data EXCEPT ![c] = [model_name |-> model_name, prompt |-> prompt]]
          /\ pc' = [pc EXCEPT ![c] = "validating"]
          /\ sent' = [sent EXCEPT ![c] = NoSent]
          /\ UNCHANGED close_code
       \/ /\ connected[c]
          /\ close_code' = [close_code EXCEPT ![c] = WS_1011_INTERNAL_ERROR]
          /\ pc' = [pc EXCEPT ![c] = "closed"]
          /\ UNCHANGED <<data, sent>>
       \/ /\ ~connected[c]
          /\ pc' = [pc EXCEPT ![c] = "closed"]
          /\ UNCHANGED <<data, sent, close_code>>
    /\ unchanged_db
    /\ UNCHANGED <<current_user, run, result, token, connected, ws_vars>>

\* core/helpers.parse_ws_message: the validated message, or None after an
\* error payload was sent
parse_ws_message(raw_data) ==
    IF raw_data.model_name \in AIModels
    THEN [data |-> raw_data, payload |-> NoSent]
    ELSE [data |-> NoData,
          payload |-> [status_code |-> 0, body |-> [error |-> <<"Invalid message">>]]]

\* "data = await parse_ws_message(websocket, raw_data); if not data: continue"
websocket_endpoint_parse(c) ==
    /\ c \in Conns
    /\ pc[c] = "validating"
    /\ LET parsed == parse_ws_message(data[c])
       IN  /\ data' = [data EXCEPT ![c] = parsed.data]
           /\ IF parsed.data = NoData
              THEN send_json(c, parsed.payload)
              ELSE /\ pc' = [pc EXCEPT ![c] = "ratelimiting"]
                   /\ UNCHANGED <<sent, close_code>>
    /\ unchanged_db
    /\ UNCHANGED <<current_user, run, result, token, connected, ws_vars>>

\* f"You have exceeded the rate limit. Please try again after {seconds} seconds."
rate_limit_message(seconds) ==
    <<"You have exceeded the rate limit. Please try again after", seconds, "seconds.">>

\* the handler without the "continue" that follows the error payload
websocket_endpoint_ratelimit_falls_through(c) ==
    /\ c \in Conns
    /\ pc[c] = "ratelimiting"
    /\ \/ UNCHANGED sent
       \/ sent' = [sent EXCEPT ![c] =
              [status_code |-> 0,
               body |-> [error |-> rate_limit_message(RATE_LIMIT_WINDOW)]]]
    /\ pc' = [pc EXCEPT ![c] = "check_provider"]
    /\ unchanged_db
    /\ UNCHANGED <<current_user, data, run, result, close_code, token, connected, ws_vars>>

\* "await ratelimit(websocket, context_key=f"user:{user.id}")": the limiter
\* admits the message, or raises HTTPException and the handler answers with
\* the error payload and continues with the next message, or fails with
\* another exception (its store is unreachable), which "except Exception"
\* answers by closing the socket
websocket_endpoint_ratelimit(c) ==
    /\ c \in Conns
    /\ pc[c] = "ratelimiting"
    /\ \/ /\ pc' = [pc EXCEPT ![c] = "check_provider"]
          /\ UNCHANGED <<data, sent, close_code>>
       \/ /\ send_json(c, [status_code |-> 0,
                           body |-> [error |-> rate_limit_message(RATE_LIMIT_WINDOW)]])
          /\ data' = [data EXCEPT ![c] = NoData]
       \/ /\ close_code' = [close_code EXCEPT ![c] = WS_1011_INTERNAL_ERROR]
          /\ data' = [data EXCEPT ![c] = NoData]
          /\ pc' = [pc EXCEPT ![c] = "closed"]
          /\ UNCHANGED sent
    /\ unchanged_db
    /\ UNCHANGED <<current_user, run, result, token, connected, ws_vars>>

\* core/helpers.process_ai_request: runs generate_model_response; an
\* HTTPException is caught and sent to the client as an error payload and None
\* is returned, otherwise the chat record is returned
process_ai_request(res, message, locals) ==
    IF res.status_code # 200
    THEN [chat_record |-> [none |-> TRUE],
          payload |-> [status_code |-> res.status_code,
                       body |-> [error |-> <<res.detail>>]]]
    ELSE [chat_record |-> db_chat[locals.chat_id],
          payload |-> NoSent]

\* "chat_record.created_at.isoformat()": the time as text
isoformat(created_at) == <<"T", created_at>>

\* the payload built from the chat record
chat_payload(chat_record) ==
    [prompt |-> chat_record.prompt, response |-> chat_record.response,
     created_at |-> isoformat(chat_record.created_at),
     model_name |-> chat_record.model_name]

\* the HTTPException of the pipeline reaching the handler's "except Exception"
websocket_endpoint_reply_uncaught(c) ==
    /\ c \in Conns
    /\ pc[c] = "replying"
    /\ LET processed == process_ai_request(result[c], data[c], run[c])
       IN  IF processed.chat_record = [none |-> TRUE]
           THEN /\ close_code' = [close_code EXCEPT ![c] = WS_1011_INTERNAL_ERROR]
                /\ pc' = [pc EXCEPT ![c] = "closed"]
                /\ UNCHANGED sent
           ELSE send_json(c, [status_code |-> 200,
                              body |-> chat_payload(processed.chat_record)])
    /\ data' = [data EXCEPT ![c] = NoData]
    /\ run' = [run EXCEPT ![c] = NoRun]
    /\ result' = [result EXCEPT ![c] = NoResult]
    /\ unchanged_db
    /\ UNCHANGED <<current_user, token, connected, ws_vars>>

\* "chat_record = await process_ai_request(...); if not chat_record: continue",
\* then the payload of the chat record is sent
websocket_endpoint_reply(c) ==
    /\ c \in Conns
    /\ pc[c] = "replying"
    /\ LET processed == process_ai_request(result[c], data[c], run[c])
       IN  IF processed.chat_record = [none |-> TRUE]
           THEN send_json(c, processed.payload)
           ELSE send_json(c, [status_code |-> 200,
                              body |-> chat_payload(processed.chat_record)])
    /\ data' = [data EXCEPT ![c] = NoData]
    /\ run' = [run EXCEPT ![c] = NoRun]
    /\ result' = [result EXCEPT ![c] = NoResult]
    /\ unchanged_db
    /\ UNCHANGED <<current_user, token, connected, ws_vars>>

\* ------------------------------------------- api/chat.py: POST /ai/chat

\* a request arrives; get_current_user loads the user for this request
api_chat_request(r) ==
    /\ r \in Reqs
    /\ pc[r] = "idle"
    /\ Len(db_chat) < MaxChats
    /\ \E token_valid \in BOOLEAN, email \in 0..NumUsers :
          IF token_valid /\ email \in Users
          THEN /\ \E model_name \in AIModels, prompt \in Prompts :
                     data' = [data EXCEPT ![r] =
                                 [model_name |-> model_name, prompt |-> prompt]]
               /\ current_user' = [current_user EXCEPT ![r] = load_user(email)]
               /\ pc' = [pc EXCEPT ![r] = "check_provider"]
               /\ sent' = [sent EXCEPT ![r] = NoSent]
          ELSE /\ sent' = [sent EXCEPT ![r] =
                      [status_code |-> 401,
                       body |-> [detail |-> "Could not validate credentials"]]]
               /\ UNCHANGED <<pc, current_user, data>>
    /\ unchanged_db
    /\ UNCHANGED <<run, result, close_code, token, connected, ws_vars>>

\* "response_text = chat_repository.chat(...); return ChatResponse(response=response_text)":
\* the whole tuple the repository returned is passed as the response field,
\* which the response schema accepts or refuses
api_chat_respond(r) ==
    /\ r \in Reqs
    /\ pc[r] = "responding"
    /\ IF result[r].status_code # 200
       THEN sent' = [sent EXCEPT ![r] =
                [status_code |-> result[r].status_code,
                 body |-> [detail |-> result[r].detail]]]
       ELSE \/ sent' = [sent EXCEPT ![r] =
                   [status_code |-> 200,
                    body |-> [response |->
                        <<run[r].response_text, result[r].final_remaining>>]]]
            \/ sent' = [sent EXCEPT ![r] =
                   [status_code |-> 500,
                    body |-> [detail |-> "Internal Server Error"]]]
    /\ data' = [data EXCEPT ![r] = NoData]
    /\ run' = [run EXCEPT ![r] = NoRun]
    /\ result' = [result EXCEPT ![r] = NoResult]
    /\ current_user' = [current_user EXCEPT ![r] = NoUser]
    /\ pc' = [pc EXCEPT ![r] = "idle"]
    /\ unchanged_db
    /\ UNCHANGED <<close_code, token, connected, ws_vars>>

\* ------------------------------------- api/chat.py: GET /ai/chat-history

\* a request arrives; get_current_user loads the user for this request
api_get_chat_history_request(r) ==
    /\ r \in Reqs
    /\ pc[r] = "idle"
    /\ \E token_valid \in BOOLEAN, email \in 0..NumUsers :
          IF token_valid /\ email \in Users
          THEN /\ \E model_name \in AIModels :
                     data' = [data EXCEPT ![r] = [model_name |-> model_name, prompt |-> ""]]
               /\ current_user' = [current_user EXCEPT ![r] = load_user(email)]
               /\ pc' = [pc EXCEPT ![r] = "history"]
               /\ sent' = [sent EXCEPT ![r] = NoSent]
          ELSE /\ sent' = [sent EXCEPT ![r] =
                      [status_code |-> 401,
                       body |-> [detail |-> "Could not validate credentials"]]]
               /\ UNCHANGED <<pc, current_user, data>>
    /\ unchanged_db
    /\ UNCHANGED <<run, result, close_code, token, connected, ws_vars>>

\* "chat_records = chat_repository.get_chat_history(model_name, current_user, db);
\* return ChatHistoryResponse(chat=chat_records)"
api_get_chat_history_respond(r) ==
    /\ r \in Reqs
    /\ pc[r] = "history"
    /\ \E chat_records \in get_chat_history(data[r].model_name, current_user[r]) :
          sent' = [sent EXCEPT ![r] =
                      [status_code |-> 200, body |-> [chat |-> chat_records]]]
    /\ data' = [data EXCEPT ![r] = NoData]
    /\ current_user' = [current_user EXCEPT ![r] = NoUser]
    /\ pc' = [pc EXCEPT ![r] = "idle"]
    /\ unchanged_db
    /\ UNCHANGED <<run, result, close_code, token, connected, ws_vars>>

\* ------------------------------------------------------------ specification

\* ------------------------------------------------ api/ws.py: the chat room

\* the clients of /ws/chat/{client_id}; each connects once, with its own socket
Clients == 1..NumClients

\* the handler is inside ConnectionManager.broadcast
BroadcastStates == {"joining", "saying", "leaving"}

\* the handler has returned from its latest broadcast
AfterBroadcast == {"receiving", "limiting", "echoed", "done"}

\* "x in list"
contains(list, x) == \E i \in DOMAIN list : list[i] = x

\* the elements of a list
elements(list) == {list[i] : i \in DOMAIN list}

\* "list.remove(x)" for an x that is in the list: its first occurrence goes
remove(list, x) ==
    LET i == CHOOSE i \in DOMAIN list : list[i] = x /\ \A j \in 1..(i - 1) : list[j] # x
    IN  SubSeq(list, 1, i - 1) \o SubSeq(list, i + 1, Len(list))

\* "manager = ConnectionManager()": "self.active_connections = []"
manager_init ==
    /\ active_connections = <<>>
    /\ ws_pc = [k \in Clients |-> "new"]
    /\ ws_connected = [k \in Clients |-> TRUE]
    /\ says = [k \in Clients |-> 0]
    /\ broadcast_i = [k \in Clients |-> 1]
    /\ inactive_connections = [k \in Clients |-> <<>>]
    /\ received = [k \in Clients |-> [c \in Clients |-> 0]]
    /\ listeners = [k \in Clients |-> {}]

\* ConnectionManager.disconnect: "if websocket in self.active_connections:
\* self.active_connections.remove(websocket)"
disconnect(list, websocket) ==
    IF contains(list, websocket) THEN remove(list, websocket) ELSE list

\* the "for connection in self.active_connections" loop of broadcast, from the
\* iterator's position i on the list as it is now, up to the next send that
\* succeeds (where the handler may be suspended) or to the end of the list: a
\* send that raises RuntimeError appends the connection to inactive_connections
RECURSIVE broadcast_loop(_, _, _)
broadcast_loop(list, i, inactive) ==
    IF i > Len(list)
    THEN [i |-> i, inactive |-> inactive, delivered |-> 0]
    ELSE IF ~ws_connected[list[i]]
         THEN broadcast_loop(list, i + 1, Append(inactive, list[i]))
         ELSE [i |-> i + 1, inactive |-> inactive, delivered |-> list[i]]

\* "for connection in inactive_connections:
\* self.active_connections.remove(connection)": list.remove raises ValueError
\* for a connection that is not in the list
RECURSIVE broadcast_remove(_, _)
broadcast_remove(list, inactive) ==
    IF inactive = <<>>
    THEN [list |-> list, raised |-> FALSE]
    ELSE IF ~contains(list, Head(inactive))
         THEN [list |-> list, raised |-> TRUE]
         ELSE broadcast_remove(remove(list, Head(inactive)), Tail(inactive))

\* the sockets that have been in the list ever since the running broadcast of
\* each handler began, when the list becomes list and k's own are mine
still_listening(k, mine, list) ==
    [b \in Clients |->
        IF b = k THEN mine
        ELSE IF ws_pc[b] \in BroadcastStates
             THEN listeners[b] \cap elements(list)
             ELSE listeners[b]]

\* what the handler does after the broadcast it was in
after_broadcast(state) == IF state = "leaving" THEN "done" ELSE "receiving"

\* ConnectionManager.broadcast run by the handler of k, in state, from the
\* iterator's position i, until the handler is suspended in a send or the
\* broadcast returns or raises
broadcast(k, state, list, i, inactive, got, mine) ==
    LET loop == broadcast_loop(list, i, inactive)
        removal == broadcast_remove(list, loop.inactive)
    IN  /\ broadcast_i' = [broadcast_i EXCEPT ![k] = loop.i]
        /\ inactive_connections' = [inactive_connections EXCEPT ![k] = loop.inactive]
        /\ IF loop.delivered # 0
           THEN /\ received' = [received EXCEPT ![k] = [got EXCEPT ![loop.delivered] = @ + 1]]
                /\ active_connections' = list
                /\ listeners' = still_listening(k, mine, list)
                /\ ws_pc' = [ws_pc EXCEPT ![k] = state]
                /\ UNCHANGED ws_connected
           ELSE /\ received' = [received EXCEPT ![k] = got]
                /\ active_connections' = removal.list
                /\ listeners' = still_listening(k, mine, removal.list)
                /\ IF removal.raised
                   THEN /\ ws_pc' = [ws_pc EXCEPT ![k] = "ValueError"]
                        /\ ws_connected' = [ws_connected EXCEPT ![k] = FALSE]
                   ELSE /\ ws_pc' = [ws_pc EXCEPT ![k] = after_broadcast(state)]
                        /\ UNCHANGED ws_connected

\* a broadcast begins on the list as it is then
broadcast_begin(k, state, list) ==
    broadcast(k, state, list, 1, <<>>, [c \in Clients |-> 0], elements(list))

\* "await manager.connect(websocket)": "await websocket.accept()"
ws_endpoint_accept(k) ==
    /\ k \in Clients
    /\ ws_pc[k] = "new"
    /\ ws_pc' = [ws_pc EXCEPT ![k] = "accepted"]
    /\ UNCHANGED <<active_connections, ws_connected, says, broadcast_i,
                   inactive_connections, received, listeners>>
    /\ UNCHANGED chat_vars

\* ConnectionManager.connect after the accept: the socket is appended and the
\* welcome is sent to it; the send on a socket whose client is gone raises
\* RuntimeError, which nothing in the handler catches
connect(k) ==
    /\ k \in Clients
    /\ ws_pc[k] = "accepted"
    /\ active_connections' = Append(active_connections, k)
    /\ ws_pc' = [ws_pc EXCEPT ![k] = IF ws_connected[k] THEN "welcomed" ELSE "RuntimeError"]
    /\ listeners' = still_listening(k, listeners[k], Append(active_connections, k))
    /\ UNCHANGED <<ws_connected, says, broadcast_i, inactive_connections, received>>
    /\ UNCHANGED chat_vars

\* "await manager.broadcast(f"Client #{client_id} joins the chat")"
ws_endpoint_join(k) ==
    /\ k \in Clients
    /\ ws_pc[k] = "welcomed"
    /\ broadcast_begin(k, "joining", active_connections)
    /\ UNCHANGED says
    /\ UNCHANGED chat_vars

\* the handler suspended in a send of its broadcast goes on
broadcast_resume(k) ==
    /\ k \in Clients
    /\ ws_pc[k] \in BroadcastStates
    /\ broadcast(k, ws_pc[k], active_connections, broadcast_i[k],
                 inactive_connections[k], received[k], listeners[k])
    /\ UNCHANGED says
    /\ UNCHANGED chat_vars

\* "data = await websocket.receive_text()": a text frame, or, the client
\* gone, WebSocketDisconnect: "await manager.disconnect(websocket)" and the
\* broadcast that the client left
ws_endpoint_receive(k) ==
    /\ k \in Clients
    /\ ws_pc[k] = "receiving"
    /\ IF ws_connected[k]
       THEN /\ says[k] < MaxSays
            /\ says' = [says EXCEPT ![k] = @ + 1]
            /\ ws_pc' = [ws_pc EXCEPT ![k] = "limiting"]
            /\ UNCHANGED <<active_connections, ws_connected, broadcast_i,
                           inactive_connections, received, listeners>>
       ELSE /\ broadcast_begin(k, "leaving", disconnect(active_connections, k))
            /\ UNCHANGED says
    /\ UNCHANGED chat_vars

\* "await ratelimit(websocket, context_key=...)": admitted, the text is echoed
\* to the sender; denied, the sender is told so and the loop continues
ws_endpoint_ratelimit(k) ==
    /\ k \in Clients
    /\ ws_pc[k] = "limiting"
    /\ \E admitted \in BOOLEAN :
          ws_pc' = [ws_pc EXCEPT ![k] =
                       IF ~ws_connected[k] THEN "RuntimeError"
                       ELSE IF admitted THEN "echoed" ELSE "receiving"]
    /\ UNCHANGED <<active_connections, ws_connected, says, broadcast_i,
                   inactive_connections, received, listeners>>
    /\ UNCHANGED chat_vars

\* "await manager.broadcast(f"Client #{client_id} says: {data}")"
ws_endpoint_say(k) ==
    /\ k \in Clients
    /\ ws_pc[k] = "echoed"
    /\ broadcast_begin(k, "saying", active_connections)
    /\ UNCHANGED says
    /\ UNCHANGED chat_vars

\* the client of k goes away: from now on a send on its socket raises
ws_client_gone(k) ==
    /\ k \in Clients
    /\ ws_pc[k] \notin {"new", "done", "RuntimeError", "ValueError"}
    /\ ws_connected[k]
    /\ ws_connected' = [ws_connected EXCEPT ![k] = FALSE]
    /\ UNCHANGED <<active_connections, ws_pc, says, broadcast_i,
                   inactive_connections, received, listeners>>
    /\ UNCHANGED chat_vars

Init ==
    /\ db_user \in [Users -> [ai_requests_count : 0..MaxInitCount, is_unlimited : BOOLEAN]]
    /\ db_chat = <<>>
    /\ disabled \in SUBSET AIModels
    /\ initial_count = [u \in Users |-> db_user[u].ai_requests_count]
    /\ pc = [p \in Procs |-> IF p \in Conns THEN "connecting" ELSE "idle"]
    /\ current_user = [p \in Procs |-> NoUser]
    /\ data = [p \in Procs |-> NoData]
    /\ run = [p \in Procs |-> NoRun]
    /\ result = [p \in Procs |-> NoResult]
    /\ sent = [p \in Procs |-> NoSent]
    /\ close_code = [p \in Procs |-> 0]
    /\ token = [c \in Conns |-> NoToken]
    /\ connected = [c \in Conns |-> TRUE]
    /\ manager_init

Step(p) ==
    \/ websocket_endpoint_accept(p)
    \/ websocket_endpoint_authenticate(p)
    \/ client_disconnect(p)
    \/ websocket_endpoint_receive(p)
    \/ websocket_endpoint_parse(p)
    \/ websocket_endpoint_ratelimit(p)
    \/ generate_model_response_check_provider(p)
    \/ generate_model_response_check_usage(p)
    \/ generate_model_response_call_provider(p)
    \/ generate_model_response_persist(p)
    \/ generate_model_response_refresh(p)
    \/ websocket_endpoint_reply(p)
    \/ api_chat_request(p)
    \/ chat_check_provider(p)
    \/ chat_check_usage(p)
    \/ chat_call_provider(p)
    \/ chat_persist(p)
    \/ chat_refresh(p)
    \/ api_chat_respond(p)
    \/ api_get_chat_history_request(p)
    \/ api_get_chat_history_respond(p)

Next == \E p \in Procs : Step(p)

Spec == Init /\ [][Next]_vars

\* the steps of the handler of c between the receipt of a message and its
\* reply: none of them waits for the client
websocket_endpoint_progress(c) ==
    \/ websocket_endpoint_parse(c)
    \/ websocket_endpoint_ratelimit(c)
    \/ generate_model_response_check_provider(c)
    \/ generate_model_response_check_usage(c)
    \/ generate_model_response_call_provider(c)
    \/ generate_model_response_persist(c)
    \/ generate_model_response_refresh(c)
    \/ websocket_endpoint_reply(c)

\* the event loop runs every handler that is ready to run: the provider call
\* and the database write return
SpecLive == Init /\ [][Next]_vars /\ \A c \in Conns : WF_vars(websocket_endpoint_progress(c))

\* a message or request is being processed by p
InFlight(p) == pc[p] \notin {"connecting", "authenticating", "ready", "closed", "idle"}

\* no connection or request has a message in flight
NoneInFlight == \A q \in Procs : ~InFlight(q)

\* the requests of all clients are issued one after another: a message is
\* received, or a request accepted, only while none is in flight
NextSeq ==
    \E p \in Procs :
        \/ NoneInFlight /\ websocket_endpoint_receive(p)
        \/ NoneInFlight /\ api_chat_request(p)
        \/ websocket_endpoint_accept(p)
        \/ websocket_endpoint_authenticate(p)
        \/ client_disconnect(p)
        \/ websocket_endpoint_parse(p)
        \/ websocket_endpoint_ratelimit(p)
        \/ generate_model_response_check_provider(p)
        \/ generate_model_response_check_usage(p)
        \/ generate_model_response_call_provider(p)
        \/ generate_model_response_persist(p)
        \/ generate_model_response_refresh(p)
        \/ websocket_endpoint_reply(p)
        \/ chat_check_provider(p)
        \/ chat_check_usage(p)
        \/ chat_call_provider(p)
        \/ chat_persist(p)
        \/ chat_refresh(p)
        \/ api_chat_respond(p)
        \/ NoneInFlight /\ api_get_chat_history_request(p)
        \/ api_get_chat_history_respond(p)

SpecSeq == Init /\ [][NextSeq]_vars

\* the users owning rows of chat_history: those of Users and one more, whose
\* own requests are not followed
RowOwners == 1..(NumUsers + 1)

\* the contents chat_history may have after earlier pipeline runs
StoredRows ==
    UNION {{[i \in 1..n |->
               [ChatHistory(owner[i], prompt, response, model[i])
                   EXCEPT !.id = i, !.created_at = i]] :
                  owner \in [1..n -> RowOwners], model \in [1..n -> AIModels],
                  prompt \in Prompts, response \in Responses} : n \in 0..MaxRows}

\* history requests against a chat_history that earlier runs have filled
InitHistory ==
    /\ db_user \in [Users -> [ai_requests_count : 0..MaxInitCount, is_unlimited : BOOLEAN]]
    /\ db_chat \in StoredRows
    /\ disabled = {}
    /\ initial_count = [u \in Users |-> db_user[u].ai_requests_count]
    /\ pc = [p \in Procs |-> IF p \in Conns THEN "connecting" ELSE "idle"]
    /\ current_user = [p \in Procs |-> NoUser]
    /\ data = [p \in Procs |-> NoData]
    /\ run = [p \in Procs |-> NoRun]
    /\ result = [p \in Procs |-> NoResult]
    /\ sent = [p \in Procs |-> NoSent]
    /\ close_code = [p \in Procs |-> 0]
    /\ token = [c \in Conns |-> NoToken]
    /\ connected = [c \in Conns |-> TRUE]
    /\ manager_init

NextHistory ==
    \E r \in Reqs :
        \/ api_get_chat_history_request(r)
        \/ api_get_chat_history_respond(r)

SpecHistory == InitHistory /\ [][NextHistory]_vars

\* the chat room alone, with the other routes at rest
InitWs ==
    /\ Init
    /\ disabled = {}
    /\ \A u \in Users : db_user[u] = [ai_requests_count |-> 0, is_unlimited |-> FALSE]

NextWs ==
    \E k \in Clients :
        \/ ws_endpoint_accept(k)
        \/ connect(k)
        \/ ws_endpoint_join(k)
        \/ broadcast_resume(k)
        \/ ws_endpoint_receive(k)
        \/ ws_endpoint_ratelimit(k)
        \/ ws_endpoint_say(k)
        \/ ws_client_gone(k)

SpecWs == InitWs /\ [][NextWs]_vars

\* ------------------------------------------------------------------ claims

\* the chat_history rows of user u
chats_of(u) == {i \in DOMAIN db_chat : db_chat[i].user_id = u}

\* the pipeline run of p has returned or raised
Ended(p) == pc[p] \in {"replying", "responding"}

\* a user the quota applies to, whose counter started at 0
Metered(u) == ~db_user[u].is_unlimited /\ initial_count[u] = 0

\* C1: a non-unlimited user whose count started at 0 never has more than LIMIT
\* committed ChatExchange records, under any interleaving of pipeline runs.
C1_AtMostLimitCommitted ==
    \A u \in Users : Metered(u) => Cardinality(chats_of(u)) <= LIMIT

\* C2: for a non-unlimited user that started at 0 with no history, the stored
\* ai_requests_count equals the number of the user's persisted records (the
\* append and the commit are one step, so no run is ever between them).
C2_CountEqualsHistory ==
    \A u \in Users :
        Metered(u) => db_user[u].ai_requests_count = Cardinality(chats_of(u))

\* C3: with requests issued one after another, after N successful requests of a
\* non-unlimited user (from count 0) the quota check computes
\* remaining = max(0, LIMIT - N), and with remaining = 0 the request is rejected
\* with the 403 "usage limit reached" error before any provider call.
C3_SequentialQuota ==
    \A p \in Procs :
        LET user == current_user[p]
            N == Cardinality(chats_of(user.id))
            remaining == max(0, LIMIT - N)
        IN  ( /\ run[p].usage_checks = 1
              /\ user.id \in Users
              /\ ~user.expired
              /\ \/ pc[p] \in {"call_provider", "persist"}
                 \/ Ended(p) /\ result[p].status_code = 403
              /\ Metered(user.id) )
            => /\ run[p].remaining = remaining
               /\ remaining = 0 =>
                    /\ Ended(p)
                    /\ result[p].status_code = 403
                    /\ result[p].detail = "AI usage limit reached"
                    /\ run[p].provider_calls = 0

\* C4: a request naming a provider whose availability flag is false is rejected
\* with 403 by the availability step, before check_usage_limit is evaluated and
\* before any provider call, leaving the user rows and chat_history untouched.
C4_UnavailableRejectedFirst ==
    [][\A p \in Procs :
          (pc[p] = "check_provider" /\ pc'[p] # "check_provider"
             /\ data[p].model_name \in disabled)
          => /\ Ended(p)'
             /\ result'[p].status_code = 403
             /\ result'[p].detail = "This AI provider is currently unavailable"
             /\ run'[p].usage_checks = 0
             /\ run'[p].provider_calls = 0
             /\ current_user'[p] = current_user[p]
             /\ db_user' = db_user
             /\ db_chat' = db_chat]_vars

C4_Witness ==
    \E p \in Procs :
        /\ Ended(p)
        /\ data[p].model_name \in disabled
        /\ result[p].status_code = 403
        /\ run[p].usage_checks = 0
        /\ ~db_user[current_user[p].id].is_unlimited
        /\ db_user[current_user[p].id].ai_requests_count < LIMIT

\* C5: when the provider's chat call fails, the run ends at once with the 500
\* "AI platform error", after exactly one provider call (no retry), and the
\* step changes neither a user row, nor the run's user object, nor chat_history.
C5_ProviderFailure ==
    [][\A p \in Procs :
          (pc[p] = "call_provider" /\ pc'[p] \notin {"call_provider", "persist"})
          => /\ Ended(p)'
             /\ result'[p].status_code = 500
             /\ result'[p].detail = "AI platform error"
             /\ run'[p].provider_calls = 1
             /\ current_user'[p] = current_user[p]
             /\ db_user' = db_user
             /\ db_chat' = db_chat]_vars

C5_Witness ==
    \E p \in Procs :
        /\ Ended(p)
        /\ result[p].status_code = 500
        /\ result[p].detail = "AI platform error"
        /\ run[p].provider_calls = 1
        /\ ~db_user[current_user[p].id].is_unlimited

\* the count the next quota check of p will read from its user object
next_checked_count(user) ==
    IF user.expired THEN db_user[user.id].ai_requests_count ELSE user.ai_requests_count

\* C6: when the write of the commit+append step fails, the run ends with the
\* 500 "Database error", the user rows and chat_history are unchanged by the
\* step, and the count the same session reads at its next quota check is the
\* stored one, not the incremented one.
C6_PersistenceFailure ==
    [][\A p \in Procs :
          (pc[p] = "persist" /\ pc'[p] \notin {"persist", "refresh"})
          => /\ Ended(p)'
             /\ result'[p].status_code = 500
             /\ result'[p].detail = "Database error"
             /\ db_user' = db_user
             /\ db_chat' = db_chat
             /\ next_checked_count(current_user[p]')
                  = db_user[current_user[p].id].ai_requests_count]_vars

C6_Witness ==
    \E p \in Procs :
        /\ Ended(p)
        /\ result[p].status_code = 500
        /\ result[p].detail = "Database error"
        /\ current_user[p].expired
        /\ db_chat = <<>>
        /\ ~db_user[current_user[p].id].is_unlimited
        /\ db_user[current_user[p].id].ai_requests_count < LIMIT

\* the reference of the usage check
usage_reference(user) ==
    IF user.is_unlimited
    THEN [allowed |-> TRUE, remaining |-> -1]
    ELSE LET remaining == max(0, LIMIT - user.ai_requests_count)
         IN  [allowed |-> remaining > 0, remaining |-> remaining]

\* the usage check of p's run has been evaluated on current_user[p]
UsageChecked(p) ==
    \/ pc[p] \in {"call_provider", "persist"}
    \/ Ended(p) /\ result[p].detail \in {"AI usage limit reached", "AI platform error"}

\* C7: check_usage_limit returns (true, -1) for an unlimited user whatever the
\* count, and otherwise remaining = max(0, LIMIT - count) and allowed exactly
\* when remaining > 0; a count above LIMIT gives (false, 0).
C7_UsageCheckIsReference ==
    \A p \in Procs :
        UsageChecked(p) =>
            /\ [allowed |-> run[p].allowed, remaining |-> run[p].remaining]
                 = usage_reference(current_user[p])
            /\ (~current_user[p].is_unlimited /\ current_user[p].ai_requests_count > LIMIT)
                 => (~run[p].allowed /\ run[p].remaining = 0)
            /\ current_user[p].is_unlimited
                 => (run[p].allowed /\ run[p].remaining = -1)

C7_Witness ==
    \E p \in Procs :
        /\ UsageChecked(p)
        /\ ~current_user[p].is_unlimited
        /\ current_user[p].ai_requests_count > LIMIT
        /\ ~run[p].allowed
        /\ run[p].remaining = 0

\* C8: a successful POST /ai/chat by a non-unlimited user holding count c < LIMIT
\* stores c + 1, and its response carries
\* remaining_requests = max(0, LIMIT - (c + 1)).
C8_ChatResponseCarriesRemaining ==
    [][\A r \in Reqs :
          /\ (pc[r] = "persist" /\ pc'[r] = "refresh" /\ ~current_user[r].is_unlimited)
               => db_user'[current_user[r].id].ai_requests_count
                    = current_user[r].ai_requests_count + 1
          /\ (pc[r] = "responding" /\ pc'[r] = "idle" /\ result[r].status_code = 200
                /\ ~current_user[r].is_unlimited)
               => /\ sent'[r].status_code = 200
                  /\ "remaining_requests" \in DOMAIN sent'[r].body
                  /\ sent'[r].body.remaining_requests
                       = max(0, LIMIT - db_user[current_user[r].id].ai_requests_count)]_vars

\* C9 as stated: a successful call of an unlimited user returns -1 and raises
\* the stored ai_requests_count by one.
C9_UnlimitedCountRaised ==
    [][\A p \in Procs :
          (pc[p] = "persist" /\ pc'[p] = "refresh" /\ current_user[p].is_unlimited)
          => db_user'[current_user[p].id].ai_requests_count
               = db_user[current_user[p].id].ai_requests_count + 1]_vars

\* C9 as amended: for an unlimited user the usage check always admits the run,
\* also with a count above LIMIT; a successful run appends its record, leaves
\* the stored ai_requests_count unchanged and returns final_remaining = -1.
C9_UnlimitedCountKept ==
    [][\A p \in Procs :
          /\ (pc[p] = "check_usage" /\ pc'[p] # "check_usage"
                /\ db_user[current_user[p].id].is_unlimited)
               => (pc'[p] = "call_provider" /\ run'[p].allowed)
          /\ (pc[p] = "persist" /\ pc'[p] = "refresh" /\ current_user[p].is_unlimited)
               => /\ db_user' = db_user
                  /\ Len(db_chat') = Len(db_chat) + 1
          /\ (pc[p] = "refresh" /\ pc'[p] # "refresh" /\ result'[p].status_code = 200
                /\ db_user[current_user[p].id].is_unlimited)
               => /\ result'[p].final_remaining = -1
                  /\ db_user'[current_user[p].id].ai_requests_count
                       = initial_count[current_user[p].id]]_vars

C9_Witness ==
    \E p \in Procs :
        /\ Ended(p)
        /\ result[p].status_code = 200
        /\ result[p].final_remaining = -1
        /\ current_user[p].is_unlimited
        /\ current_user[p].ai_requests_count > LIMIT
        /\ db_user[current_user[p].id].ai_requests_count = initial_count[current_user[p].id]
        /\ Cardinality(chats_of(current_user[p].id)) >= 1

\* C10: a successful run of an unlimited user appends its record and leaves the
\* stored ai_requests_count unchanged; a successful run of a non-unlimited user
\* changes the stored ai_requests_count by exactly +1.
C10_CommitFrame ==
    [][\A p \in Procs :
          (pc[p] = "persist" /\ pc'[p] = "refresh")
          => LET u == current_user[p].id
             IN  /\ Len(db_chat') = Len(db_chat) + 1
                 /\ db_user'[u].ai_requests_count =
                      IF db_user[u].is_unlimited
                      THEN db_user[u].ai_requests_count
                      ELSE db_user[u].ai_requests_count + 1]_vars

\* C11: the stored ai_requests_count of a non-unlimited user is non-negative
\* and never made smaller by a step of any pipeline run, on any connection and
\* under any interleaving.
C11_CountNeverDecreases ==
    [][\A u \in Users :
          ~db_user[u].is_unlimited
          => /\ db_user'[u].ai_requests_count >= 0
             /\ db_user'[u].ai_requests_count >= db_user[u].ai_requests_count]_vars

\* the run of p has appended its record (its commit succeeded)
Appended(p) == pc[p] = "refresh"

\* C12: a ChatExchange record is created exactly once per successful run, with
\* the run's user id, prompt, response and model_name, and never for a run that
\* was rejected or failed: chat_history grows only by the record of a run whose
\* commit succeeds, and a run returns success exactly when it has appended its
\* record.
C12_RecordIffSuccess ==
    [][/\ db_chat' # db_chat
          => \E p \in Procs :
                /\ pc[p] = "persist" /\ Appended(p)'
                /\ db_chat' = insert(
                       ChatHistory(current_user[p].id, data[p].prompt,
                                   run[p].response_text, data[p].model_name))
       /\ \A p \in Procs :
             (~Ended(p) /\ Ended(p)')
             => /\ db_chat' = db_chat
                /\ (result'[p].status_code = 200) <=> Appended(p)]_vars

\* C13: when the rate limiter denies a message of a /ai/ws/chat session, the
\* client is sent the error payload with the retry-after notice, the connection
\* stays open and the loop awaits the next message, and the pipeline is not run
\* for the message (no provider call, no counter change, no record); a message
\* enters the pipeline only when the limiter admitted it, and reaches the
\* provider only when the quota check allowed it as well.
C13_RateLimitDenial ==
    [][\A c \in Conns :
          /\ (pc[c] = "ratelimiting" /\ pc'[c] \notin {"ratelimiting", "check_provider"}
                /\ connected[c] /\ close_code'[c] # WS_1011_INTERNAL_ERROR)
               => /\ pc'[c] = "ready"
                  /\ sent'[c].body = [error |-> rate_limit_message(RATE_LIMIT_WINDOW)]
                  /\ close_code'[c] = 0
                  /\ run'[c] = NoRun
                  /\ current_user'[c] = current_user[c]
                  /\ db_user' = db_user
                  /\ db_chat' = db_chat
          /\ (pc'[c] = "check_provider" /\ pc[c] # "check_provider")
               => (pc[c] = "ratelimiting" /\ sent'[c] = NoSent)
          /\ (pc'[c] = "call_provider" /\ pc[c] # "call_provider")
               => (pc[c] = "check_usage" /\ run'[c].allowed)]_vars

C13_Witness ==
    \E c \in Conns :
        /\ pc[c] = "ready"
        /\ sent[c].body = [error |-> rate_limit_message(RATE_LIMIT_WINDOW)]
        /\ close_code[c] = 0
        /\ current_user[c].id \in Users
        /\ ~current_user[c].is_unlimited
        /\ current_user[c].ai_requests_count < LIMIT
        /\ db_chat = <<>>

\* C14: a malformed frame leaves the session open and in Ready after an error
\* payload is sent, and consumes nothing: receiving a frame never makes the
\* server close the connection, and a frame that fails validation is answered
\* with an error payload and a return to Ready without the rate limiter being
\* consulted, without a provider call, and with the counter and chat_history
\* unchanged.
C14_MalformedFrame ==
    [][\A c \in Conns :
          /\ (pc[c] = "ready" /\ pc'[c] # "ready")
               => close_code'[c] = 0
          /\ (pc[c] = "validating" /\ pc'[c] # "validating"
                /\ connected[c] /\ data[c].model_name \notin AIModels)
               => /\ pc'[c] = "ready"
                  /\ "error" \in DOMAIN sent'[c].body
                  /\ close_code'[c] = 0
                  /\ run'[c] = NoRun
                  /\ current_user'[c] = current_user[c]
                  /\ db_user' = db_user
                  /\ db_chat' = db_chat]_vars

\* the credential of c is missing, invalid or expired, or names no user
BadCredential(c) == token[c].kind # "valid" \/ token[c].email \notin Users

\* C15: a connection whose credential is missing, invalid or expired, or whose
\* token names no existing user, is closed with the policy-violation code and
\* never enters the message loop: it leaves Authenticating only to Closed, no
\* message of it is received, rate-limited or processed, nothing is sent on it,
\* and its steps change neither the user rows nor chat_history.
C15_RejectedAtAuthentication ==
    [][\A c \in Conns :
          (pc[c] # "connecting" /\ BadCredential(c))
          => /\ pc'[c] \in {"authenticating", "closed"}
             /\ pc'[c] = "closed" => close_code'[c] = WS_1008_POLICY_VIOLATION
             /\ data'[c] = NoData
             /\ run'[c] = NoRun
             /\ sent'[c] = NoSent
             /\ current_user'[c] = NoUser
             /\ (pc[c] = "authenticating" /\ pc'[c] = "closed")
                  => (db_user' = db_user /\ db_chat' = db_chat)]_vars

C15_Witness ==
    \E c \in Conns :
        /\ pc[c] = "closed"
        /\ token[c].kind = "valid"
        /\ token[c].email \notin Users
        /\ close_code[c] = WS_1008_POLICY_VIOLATION
        /\ current_user[c] = NoUser

\* the domain errors of the pipeline
DomainErrors ==
    {provider_unavailable_error, usage_limit_error, platform_error, database_error}

\* C16: every domain error raised while a message is processed (unavailable
\* provider, quota exhausted, provider failure, persistence failure) is sent to
\* the client as an error payload and the session returns to Ready with the
\* connection open; a session past authentication ends only by the client's
\* disconnect or, for an exception that is not a domain error, by a close with
\* the internal-error code.
C16_DomainErrorsKeepSession ==
    [][\A c \in Conns :
          /\ (pc[c] = "replying" /\ pc'[c] # "replying" /\ result[c].status_code # 200)
               => /\ result[c] \in DomainErrors
                  /\ connected[c]
                       => /\ pc'[c] = "ready"
                          /\ sent'[c] = [status_code |-> result[c].status_code,
                                         body |-> [error |-> <<result[c].detail>>]]
                          /\ close_code'[c] = 0
          /\ (Ended(c)' /\ ~Ended(c) /\ result'[c].status_code # 200)
               => result'[c] \in DomainErrors
          /\ (pc'[c] = "closed" /\ pc[c] \notin {"closed", "authenticating"})
               => /\ pc[c] \in {"ready", "ratelimiting"} \/ ~connected[c]
                  /\ close_code'[c] \in {0, WS_1011_INTERNAL_ERROR}
                  /\ (pc[c] = "ratelimiting" /\ connected[c])
                       => close_code'[c] = WS_1011_INTERNAL_ERROR]_vars

C16_Witness ==
    \E c \in Conns :
        /\ pc[c] = "ready"
        /\ close_code[c] = 0
        /\ sent[c] = [status_code |-> 500, body |-> [error |-> <<"Database error">>]]
        /\ Len(db_chat) = 0

\* the stored rows of user u and model m, in insertion order
listByUser(u, m) ==
    SelectSeq(db_chat, LAMBDA row : row.user_id = u /\ row.model_name = m)

\* C17: get_chat_history(model_name, user) returns exactly the stored records
\* whose user_id is the user's id and whose model_name is the requested model,
\* in insertion order, and the empty sequence when none match.
C17_HistoryInInsertionOrder ==
    [][\A r \in Reqs :
          (pc[r] = "history" /\ pc'[r] = "idle")
          => /\ sent'[r].status_code = 200
             /\ sent'[r].body.chat = listByUser(current_user[r].id, data[r].model_name)]_vars

\* C18: GET /ai/chat-history returns, next to the chat list, a usage_info with
\* limit = LIMIT and, for a non-unlimited user below the limit,
\* remaining_requests = LIMIT - ai_requests_count; the request changes neither
\* the counter nor the history.
C18_HistoryCarriesUsageInfo ==
    [][\A r \in Reqs :
          (pc[r] = "history" /\ pc'[r] = "idle")
          => /\ db_user' = db_user
             /\ db_chat' = db_chat
             /\ sent'[r].status_code = 200
             /\ "chat" \in DOMAIN sent'[r].body
             /\ "usage_info" \in DOMAIN sent'[r].body
             /\ sent'[r].body.usage_info.limit = LIMIT
             /\ (~current_user[r].is_unlimited /\ current_user[r].ai_requests_count < LIMIT)
                  => sent'[r].body.usage_info.remaining_requests
                       = LIMIT - current_user[r].ai_requests_count]_vars

\* C19: chat() and generate_model_response() are equivalent on state: from the
\* same user object, message, provider availability and stored state, every
\* step of the one has the same outcomes as the same step of the other (the
\* same check in the same place, the same error or success, the same
\* ai_requests_count and the same chat_history), for every provider and
\* database outcome.
C19_PipelinesMirror ==
    \A p \in Procs :
        LET user == current_user[p]
            message == data[p]
            locals == run[p]
            res == result[p]
        IN  /\ pc[p] = "check_provider"
                 => chat_check_provider_outcomes(user, message, locals, res)
                      = generate_model_response_check_provider_outcomes(
                            user, message, locals, res)
            /\ pc[p] = "check_usage"
                 => chat_check_usage_outcomes(user, message, locals, res)
                      = generate_model_response_check_usage_outcomes(
                            user, message, locals, res)
            /\ pc[p] = "call_provider"
                 => chat_call_provider_outcomes(user, message, locals, res)
                      = generate_model_response_call_provider_outcomes(
                            user, message, locals, res)
            /\ pc[p] = "persist"
                 => chat_persist_outcomes(user, message, locals, res)
                      = generate_model_response_persist_outcomes(
                            user, message, locals, res)
            /\ pc[p] = "refresh"
                 => chat_refresh_outcomes(user, message, locals, res)
                      = generate_model_response_refresh_outcomes(
                            user, message, locals, res)

C19_Witness ==
    \E c \in Conns, r \in Reqs :
        /\ pc[c] = "persist"
        /\ pc[r] = "persist"
        /\ current_user[c] = current_user[r]
        /\ data[c] = data[r]
        /\ ~current_user[c].is_unlimited
        /\ current_user[c].ai_requests_count < LIMIT

\* C21: concurrent requests of one non-unlimited user can both pass the quota
\* check before either commits, and the overrun is off by one: the number of
\* the user's committed records (from count 0) never exceeds LIMIT + 1, under
\* any interleaving.
C21_OverrunAtMostOne ==
    \A u \in Users : Metered(u) => Cardinality(chats_of(u)) <= LIMIT + 1

\* C22: on the /ai/ws/chat session provider availability is checked before any
\* rate-limit logic: the rate limiter is never consulted for a message naming a
\* disabled provider, and such a message is always answered with the 403
\* "provider unavailable" payload, whether or not the sender is rate-limited.
C22_AvailabilityBeforeRateLimit ==
    [][\A c \in Conns :
          /\ pc'[c] = "ratelimiting" => data'[c].model_name \notin disabled
          /\ (InFlight(c) /\ data[c].model_name \in disabled /\ pc'[c] = "ready")
               => sent'[c] = [status_code |-> 403,
                              body |-> [error |-> <<provider_unavailable_error.detail>>]]]_vars

\* the stages of the pipeline run of a message
Processing == {"check_provider", "check_usage", "call_provider", "persist", "refresh"}

C24_DisconnectDoesNotAbort ==
    [][\A c \in Conns :
          /\ (connected[c] /\ ~connected'[c])
               => /\ pc' = pc
                  /\ run' = run
                  /\ result' = result
                  /\ db_user' = db_user
                  /\ db_chat' = db_chat
          /\ (~connected[c] /\ pc[c] \in Processing)
               => pc'[c] \in Processing \cup {"replying"}
          /\ (~connected[c] /\ pc[c] = "persist" /\ pc'[c] = "refresh")
               => /\ db_chat' = Append(db_chat,
                         [ChatHistory(current_user[c].id, data[c].prompt,
                                      run[c].response_text, data[c].model_name)
                            EXCEPT !.id = next_id, !.created_at = next_id])
                  /\ db_user'[current_user[c].id].ai_requests_count =
                         increment_counter(attributes(current_user[c])).ai_requests_count
          /\ (~connected[c] /\ pc[c] = "replying" /\ pc'[c] # "replying")
               => /\ pc'[c] = "closed"
                  /\ sent'[c] = sent[c]
                  /\ close_code'[c] \in {0, WS_1011_INTERNAL_ERROR}
                  /\ db_user' = db_user
                  /\ db_chat' = db_chat]_vars

C24_Witness ==
    \E c \in Conns :
        /\ pc[c] = "refresh"
        /\ ~connected[c]
        /\ sent[c] = NoSent
        /\ Len(db_chat) = 1
        /\ db_chat[1].user_id = current_user[c].id
        /\ ~db_user[current_user[c].id].is_unlimited
        /\ db_user[current_user[c].id].ai_requests_count =
               initial_count[current_user[c].id] + 1

\* C25: the connection is accepted before any credential check: a session
\* leaves Connecting only by the accept, to Authenticating, with no close code
\* and no user loaded; the policy-violation close and the loading of the user
\* happen only in Authenticating, on the accepted connection.
C25_AcceptBeforeAuthentication ==
    [][\A c \in Conns :
          /\ (pc[c] = "connecting" /\ pc'[c] # "connecting")
               => /\ pc'[c] = "authenticating"
                  /\ close_code'[c] = 0
                  /\ current_user'[c] = NoUser
                  /\ sent'[c] = NoSent
          /\ (close_code'[c] = WS_1008_POLICY_VIOLATION /\ close_code[c] = 0)
               => (pc[c] = "authenticating" /\ pc'[c] = "closed")
          /\ (current_user'[c] # NoUser /\ current_user[c] = NoUser)
               => pc[c] = "authenticating"]_vars

C25_Witness ==
    \E c \in Conns :
        /\ pc[c] = "closed"
        /\ token[c].kind # "valid"
        /\ close_code[c] = WS_1008_POLICY_VIOLATION
        /\ sent[c] = NoSent

\* the keys of the payload of a successful message
SuccessKeys == {"prompt", "response", "created_at", "model_name"}

\* C26: on an authenticated, still connected session every received frame is
\* taken as a message and gets exactly one reply, as long as the provider, the
\* database and the rate limiter's store answer: the message ends only by the
\* return to Ready with one payload sent, which has either the keys prompt,
\* response, created_at and model_name or the key error; nothing else is sent;
\* and a message in flight eventually has its reply, unless the client goes
\* away or the limiter's own failure closes the session.
C26_ExactlyOneReply ==
    /\ [][\A c \in Conns :
             /\ (pc[c] = "ready" /\ connected[c] /\ pc'[c] # "ready")
                  => pc'[c] = "validating"
             /\ (InFlight(c) /\ connected[c] /\ ~InFlight(c)'
                   /\ close_code'[c] # WS_1011_INTERNAL_ERROR)
                  => /\ pc'[c] = "ready"
                     /\ sent[c] = NoSent
                     /\ DOMAIN sent'[c].body \in {{"error"}, SuccessKeys}
                     /\ (DOMAIN sent'[c].body = SuccessKeys) <=> (result[c].status_code = 200)
             /\ sent'[c] # sent[c]
                  => \/ pc[c] = "ready" /\ sent'[c] = NoSent
                     \/ InFlight(c) /\ pc'[c] = "ready"]_vars
    /\ \A c \in Conns :
          (InFlight(c) /\ connected[c])
             ~> \/ pc[c] = "ready" /\ sent[c] # NoSent
                \/ ~connected[c]
                \/ close_code[c] = WS_1011_INTERNAL_ERROR

\* C27: ConnectionManager.broadcast sends its message exactly once to every
\* connection that is in active_connections for the whole duration of the
\* broadcast, whatever other sessions do at its await points: no connection is
\* sent the message twice, and when the broadcast has returned, every
\* connection that was in the list throughout, and whose send did not fail,
\* has been sent the message once.
C27_BroadcastReachesAll ==
    /\ \A b \in Clients, k \in Clients : received[b][k] <= 1
    /\ \A b \in Clients :
          ws_pc[b] \in AfterBroadcast
          => \A k \in listeners[b] :
                k \notin elements(inactive_connections[b]) => received[b][k] = 1

\* C28: the removal at the end of ConnectionManager.broadcast never fails: no
\* handler ends in the ValueError of list.remove; after a broadcast has
\* returned, no connection whose send failed in it is in active_connections;
\* and no connection is in the list twice.
C28_RemovalNeverFails ==
    /\ \A k \in Clients : ws_pc[k] # "ValueError"
    /\ \A b \in Clients :
          ws_pc[b] \in AfterBroadcast
          => \A k \in elements(inactive_connections[b]) : ~contains(active_connections, k)
    /\ \A i, j \in DOMAIN active_connections :
          active_connections[i] = active_connections[j] => i = j

====
